---- MODULE Spec2Model ----
(***************************************************************************)
(* The health-data demo server of node-api-demo.  Two server files exist   *)
(* in the repository: index.js (the starting point) and the commented      *)
(* solution file (src/unnamed/part_000).  Both keep the user list          *)
(* healthData.users in memory and register the same five routes.  A route  *)
(* handler is synchronous JavaScript, so it runs to completion and is one  *)
(* action here; the order of the actions is the order in which the         *)
(* runtime delivers the parsed requests.                                   *)
(***************************************************************************)
EXTENDS Integers, Sequences, FiniteSets, TLC

VARIABLES
    file,     \* the server file the process runs
    users,    \* healthData.users
    req,      \* the request handled last
    res,      \* the sends its handler made, in order
    hit,      \* index of the record its find returned, 0 for none
    creates   \* number of Create requests handled so far

vars == <<file, users, req, res, hit, creates>>

----------------------------------------------------------------------------
(* Bound of the model: Create is not offered once the list has this many   *)
(* records.                                                                *)
MaxUsers == 2

----------------------------------------------------------------------------
(* JavaScript / JSON values.  Every value is a record of the same shape so *)
(* that values of different JavaScript types can be compared.              *)

Num(n) == [t |-> "number", n |-> n, s |-> ""]

Str(s) == [t |-> "string", n |-> 0, s |-> s]

Undefined == [t |-> "undefined", n |-> 0, s |-> ""]

NaN == [t |-> "NaN", n |-> 0, s |-> ""]

(* a === b : same type and same value; NaN equals nothing, itself included *)
StrictEq(a, b) ==
    /\ a.t # "NaN"
    /\ b.t # "NaN"
    /\ a.t = b.t
    /\ a.n = b.n
    /\ a.s = b.s

(* ToBoolean(v) as used by `&&` and `!` on a primitive *)
Truthy(v) ==
    CASE v.t = "undefined" -> FALSE
      [] v.t = "null"      -> FALSE
      [] v.t = "NaN"       -> FALSE
      [] v.t = "number"    -> v.n # 0
      [] v.t = "string"    -> v.s # ""
      [] OTHER             -> TRUE

(* o.f : the value of a property, undefined when the object lacks it *)
Prop(o, f) == IF f \in DOMAIN o THEN o[f] ELSE Undefined

EmptyObject == [f \in {} |-> Undefined]

----------------------------------------------------------------------------
(* parseInt(string) with the default radix, on a string given as the      *)
(* sequence of its characters: an optional sign, then the longest prefix   *)
(* of decimal digits; NaN when there is no digit.                          *)

Digits == {"0", "1", "2", "3", "4", "5", "6", "7", "8", "9"}

DigitVal(c) ==
    CASE c = "0" -> 0 [] c = "1" -> 1 [] c = "2" -> 2 [] c = "3" -> 3
      [] c = "4" -> 4 [] c = "5" -> 5 [] c = "6" -> 6 [] c = "7" -> 7
      [] c = "8" -> 8 [] c = "9" -> 9

RECURSIVE DigitPrefix(_, _)
DigitPrefix(str, acc) ==
    IF str = <<>> \/ Head(str) \notin Digits
    THEN acc
    ELSE DigitPrefix(Tail(str), acc * 10 + DigitVal(Head(str)))

parseInt(str) ==
    LET neg  == str # <<>> /\ Head(str) = "-"
        body == IF str # <<>> /\ Head(str) \in {"-", "+"} THEN Tail(str) ELSE str
    IN  IF body = <<>> \/ Head(body) \notin Digits
        THEN NaN
        ELSE Num(IF neg THEN 0 - DigitPrefix(body, 0) ELSE DigitPrefix(body, 0))

----------------------------------------------------------------------------
(* healthData.users.find((u) => u.id === userId), as the index of the      *)
(* record found, 0 when find returns undefined: a scan from the front      *)
(* that stops at the first match.                                          *)

RECURSIVE FindFrom(_, _, _)
FindFrom(us, userId, i) ==
    IF i > Len(us) THEN 0
    ELSE IF StrictEq(Prop(us[i], "id"), userId) THEN i
    ELSE FindFrom(us, userId, i + 1)

RECURSIVE FindLastFrom(_, _, _)
FindLastFrom(us, userId, i) ==
    IF i < 1 THEN 0
    ELSE IF StrictEq(Prop(us[i], "id"), userId) THEN i
    ELSE FindLastFrom(us, userId, i - 1)

(* a scan that keeps the last match instead of stopping at the first *)
FindLast(us, userId) == FindLastFrom(us, userId, Len(us))

Find(us, userId) == FindFrom(us, userId, 1)

(* Object.assign(target, source): every own property of source overwrites *)
(* or is added to target; the other properties of target stay.            *)

(* a merge that only fills in the properties the target lacks *)
ObjectAssignKeep(target, source) ==
    [f \in DOMAIN target \cup DOMAIN source |->
        IF f \in DOMAIN target THEN target[f] ELSE source[f]]

ObjectAssign(target, source) ==
    [f \in DOMAIN target \cup DOMAIN source |->
        IF f \in DOMAIN source THEN source[f] ELSE target[f]]

----------------------------------------------------------------------------
(* Responses.  res is the sequence of the sends the handler of the last    *)
(* request made, in order; the client receives the first.                  *)

Body(kind, obj, list, text) ==
    [kind |-> kind, obj |-> obj, list |-> list, text |-> text]

TextBody(s) == Body("text", EmptyObject, <<>>, s)

JsonBody(o) == Body("json", o, <<>>, "")

ListBody(l) == Body("list", EmptyObject, l, "")

UndefinedBody == Body("undefined", EmptyObject, <<>>, "")

Send(status, body) == [status |-> status, body |-> body]

Error(msg) == JsonBody([error |-> Str(msg)])

NotFound == Send(404, Error("User not found"))

NameChanged == Send(400, Error("User name cannot be changed"))

(* What a handler leaves behind: the list, its sends, the index it matched *)
Outcome(us, sends, k) == [users |-> us, sends |-> sends, hit |-> k]

----------------------------------------------------------------------------
(* The database at process start. *)
healthData ==
    [users |-> << [id |-> Num(1), name |-> Str("John Doe"), age |-> Num(30),
                   weight |-> Num(75), height |-> Num(180)] >>]

----------------------------------------------------------------------------
(* The handlers of the solution file. *)

GetRootResult(us) ==
    Outcome(us, << Send(200, TextBody("Visit the API docs at <a href=\"/api-docs/\">api-docs</a>.")) >>, 0)

GetUsersResult(us) ==
    Outcome(us, << Send(200, ListBody(us)) >>, 0)

GetUserResult(us, id) ==
    LET userId == parseInt(id)
        k      == Find(us, userId)
    IN  IF k = 0
        THEN Outcome(us, << NotFound >>, 0)
        ELSE Outcome(us, << Send(200, JsonBody(us[k])) >>, k)

(* a create that puts the new record in front *)
PostUsersResultFront(us, newUser) ==
    Outcome(<<newUser>> \o us, << Send(201, JsonBody(newUser)) >>, 1)

PostUsersResult(us, newUser) ==
    Outcome(Append(us, newUser), << Send(201, JsonBody(newUser)) >>, Len(us) + 1)

(* an update that creates the record when the id is unknown *)
PutUserResultUpsert(us, id, updatedUser) ==
    LET userId == parseInt(id)
        k      == Find(us, userId)
    IN  IF k = 0
        THEN Outcome(Append(us, updatedUser), << NotFound >>, 0)
        ELSE IF Truthy(Prop(updatedUser, "name"))
                /\ ~StrictEq(Prop(updatedUser, "name"), Prop(us[k], "name"))
        THEN Outcome(us, << NameChanged >>, k)
        ELSE LET user == ObjectAssign(us[k], updatedUser)
             IN  Outcome([us EXCEPT ![k] = user], << Send(200, JsonBody(user)) >>, k)

(* an update that stores the merged record as a new copy *)
PutUserResultCopy(us, id, updatedUser) ==
    LET userId == parseInt(id)
        k      == Find(us, userId)
    IN  IF k = 0
        THEN Outcome(us, << NotFound >>, 0)
        ELSE IF Truthy(Prop(updatedUser, "name"))
                /\ ~StrictEq(Prop(updatedUser, "name"), Prop(us[k], "name"))
        THEN Outcome(us, << NameChanged >>, k)
        ELSE LET user == ObjectAssign(us[k], updatedUser)
             IN  Outcome(Append(us, user), << Send(200, JsonBody(user)) >>, k)

(* an update that protects the id of the record *)
PutUserResultKeepId(us, id, updatedUser) ==
    LET userId == parseInt(id)
        k      == Find(us, userId)
    IN  IF k = 0
        THEN Outcome(us, << NotFound >>, 0)
        ELSE IF Truthy(Prop(updatedUser, "name"))
                /\ ~StrictEq(Prop(updatedUser, "name"), Prop(us[k], "name"))
        THEN Outcome(us, << NameChanged >>, k)
        ELSE LET merged == ObjectAssign(us[k], updatedUser)
                 user   == [f \in DOMAIN merged |->
                               IF f = "id" /\ f \in DOMAIN us[k] THEN us[k][f] ELSE merged[f]]
             IN  Outcome([us EXCEPT ![k] = user], << Send(200, JsonBody(user)) >>, k)

PutUserResult(us, id, updatedUser) ==
    LET userId == parseInt(id)
        k      == Find(us, userId)
    IN  IF k = 0
        THEN Outcome(us, << NotFound >>, 0)
        ELSE IF Truthy(Prop(updatedUser, "name"))
                /\ ~StrictEq(Prop(updatedUser, "name"), Prop(us[k], "name"))
        THEN Outcome(us, << NameChanged >>, k)
        ELSE LET user == ObjectAssign(us[k], updatedUser)
             IN  Outcome([us EXCEPT ![k] = user], << Send(200, JsonBody(user)) >>, k)

----------------------------------------------------------------------------
(* The handlers of index.js. *)

IndexGetRootResult(us) ==
    Outcome(us, << Send(200, TextBody("Hello World!")) >>, 0)

IndexGetUsersResult(us) ==
    Outcome(us, << Send(200, ListBody(us)) >>, 0)

(* the 404 branch does not return: the handler goes on to                 *)
(* res.status(200).send(user) with user undefined                         *)
IndexGetUserResult(us, id) ==
    LET userId == parseInt(id)
        k      == Find(us, userId)
    IN  IF k = 0
        THEN Outcome(us, << NotFound, Send(200, UndefinedBody) >>, 0)
        ELSE Outcome(us, << Send(200, JsonBody(us[k])) >>, k)

IndexPostUsersResult(us, newUser) ==
    Outcome(Append(us, newUser), << Send(201, JsonBody(newUser)) >>, Len(us) + 1)

IndexPutUserResult(us, id, updatedUser) ==
    LET userId == parseInt(id)
        k      == Find(us, userId)
    IN  IF k = 0
        THEN Outcome(us, << NotFound >>, 0)
        ELSE LET user == ObjectAssign(us[k], updatedUser)
             IN  Outcome([us EXCEPT ![k] = user], << Send(200, JsonBody(user)) >>, k)

----------------------------------------------------------------------------
(* The requests the model sends. *)

Paths ==
    { <<"1">>, <<"2", "x">>, <<"9", "9", "9">>, <<"a", "b", "c">> }

CreateBodies ==
    { [id |-> Num(2), name |-> Str("Jane"), age |-> Num(25),
       weight |-> Num(60), height |-> Num(165)],
      [id |-> Num(1), age |-> Num(25)] }

UpdateBodies ==
    { [age |-> Num(31)],
      [name |-> Str("John Doe"), age |-> Num(32), weight |-> Num(80)],
      [name |-> Str("Someone Else"), age |-> Num(31)],
      [name |-> Str("")],
      [id |-> Num(2)] }

Request(method, route, id, body) ==
    [method |-> method, route |-> route, id |-> id, body |-> body]

NoRequest == Request("NONE", "", <<>>, EmptyObject)

Files == {"index.js", "solution"}

----------------------------------------------------------------------------
Init ==
    /\ file \in Files
    /\ users = healthData.users
    /\ req = NoRequest
    /\ res = <<>>
    /\ hit = 0
    /\ creates = 0

InitSolution == Init /\ file = "solution"

InitIndex == Init /\ file = "index.js"

(* The handler ran on request r and left outcome o. *)
Handled(r, o, created) ==
    /\ users' = o.users
    /\ res' = o.sends
    /\ hit' = o.hit
    /\ req' = r
    /\ creates' = creates + created
    /\ UNCHANGED file

GetRoot ==
    /\ file = "solution"
    /\ Handled(Request("GET", "/", <<>>, EmptyObject), GetRootResult(users), 0)

GetUsers ==
    /\ file = "solution"
    /\ Handled(Request("GET", "/users", <<>>, EmptyObject), GetUsersResult(users), 0)

GetUser ==
    /\ file = "solution"
    /\ \E id \in Paths :
          Handled(Request("GET", "/users/:id", id, EmptyObject), GetUserResult(users, id), 0)

PostUsers ==
    /\ file = "solution"
    /\ Len(users) < MaxUsers
    /\ \E newUser \in CreateBodies :
          Handled(Request("POST", "/users", <<>>, newUser), PostUsersResult(users, newUser), 1)

PutUser ==
    /\ file = "solution"
    /\ \E id \in Paths, updatedUser \in UpdateBodies :
          Handled(Request("PUT", "/users/:id", id, updatedUser),
                  PutUserResult(users, id, updatedUser), 0)

IndexGetRoot ==
    /\ file = "index.js"
    /\ Handled(Request("GET", "/", <<>>, EmptyObject), IndexGetRootResult(users), 0)

IndexGetUsers ==
    /\ file = "index.js"
    /\ Handled(Request("GET", "/users", <<>>, EmptyObject), IndexGetUsersResult(users), 0)

IndexGetUser ==
    /\ file = "index.js"
    /\ \E id \in Paths :
          Handled(Request("GET", "/users/:id", id, EmptyObject), IndexGetUserResult(users, id), 0)

IndexPostUsers ==
    /\ file = "index.js"
    /\ Len(users) < MaxUsers
    /\ \E newUser \in CreateBodies :
          Handled(Request("POST", "/users", <<>>, newUser), IndexPostUsersResult(users, newUser), 1)

IndexPutUser ==
    /\ file = "index.js"
    /\ \E id \in Paths, updatedUser \in UpdateBodies :
          Handled(Request("PUT", "/users/:id", id, updatedUser),
                  IndexPutUserResult(users, id, updatedUser), 0)

Next == GetRoot \/ GetUsers \/ GetUser \/ PostUsers \/ PutUser

NextIndex == IndexGetRoot \/ IndexGetUsers \/ IndexGetUser \/ IndexPostUsers \/ IndexPutUser

NextAny == Next \/ NextIndex

(* the solution file *)
Spec == InitSolution /\ [][Next]_vars

(* index.js *)
SpecIndex == InitIndex /\ [][NextIndex]_vars

(* either file *)
SpecAny == Init /\ [][NextAny]_vars

----------------------------------------------------------------------------
(* Vocabulary of the properties. *)

(* the response the client receives: the first send of the handler *)
Delivered == Head(res)

IsGetUser(r) == r.method = "GET" /\ r.route = "/users/:id"

IsPutUser(r) == r.method = "PUT" /\ r.route = "/users/:id"

(* Reference lookup: the least index whose record has an id equal to the *)
(* number v, 0 when there is none or v is not a number.                  *)
Matches(us, v) ==
    {i \in 1..Len(us) : v.t = "number" /\ "id" \in DOMAIN us[i] /\ us[i]["id"] = v}

FirstIndex(us, v) ==
    IF Matches(us, v) = {} THEN 0
    ELSE CHOOSE i \in Matches(us, v) : \A j \in Matches(us, v) : i <= j

(* the body carries an id that is not the id of the path *)
ChangesId(r) ==
    /\ "id" \in DOMAIN r.body
    /\ ~StrictEq(r.body["id"], parseInt(r.id))

----------------------------------------------------------------------------
(* C1: no request ever changes the name of a record that is in the list:  *)
(* in every step each record that was in the list keeps its name (or      *)
(* keeps having none).                                                    *)
NameNeverChanges ==
    [][\A k \in 1..Len(users) :
          /\ k <= Len(users')
          /\ Prop(users'[k], "name") = Prop(users[k], "name")]_vars

(* C2: an Update that matches a record and carries a name different from  *)
(* the stored one answers 400 "User name cannot be changed" and leaves    *)
(* the whole list as it was.                                              *)
NameChangeRejected ==
    [][(/\ IsPutUser(req')
        /\ hit' # 0
        /\ hit' = FirstIndex(users, parseInt(req'.id))
        /\ "name" \in DOMAIN req'.body
        /\ req'.body["name"] # Prop(users[hit'], "name"))
       => (res' = << NameChanged >> /\ users' = users)]_vars

(* C3: every handled request led to exactly one send of a response. *)
OneResponsePerRequest ==
    req.method # "NONE" => Len(res) = 1

(* C4: Get user by id answers 200 with the first record, in insertion     *)
(* order, whose id is the integer parsed from the path, and 404 "User not *)
(* found" when there is none, a non-numeric path included.                *)
GetFindsFirst ==
    IsGetUser(req) =>
        LET k == hit
        IN  /\ k = FirstIndex(users, parseInt(req.id))
            /\ k # 0 => Delivered = Send(200, JsonBody(users[k]))
            /\ k = 0 => Delivered = NotFound
            /\ req.id = <<"a", "b", "c">> => Delivered = NotFound

GetFindsFirstWitness ==
    /\ IsGetUser(req)
    /\ hit = 1
    /\ Cardinality(Matches(users, parseInt(req.id))) > 1
    /\ Delivered.status = 200

(* C5: an Update whose path id matches no record answers 404 "User not    *)
(* found", whatever the body, and leaves the list unchanged.              *)
UpdateMissing ==
    [][(IsPutUser(req') /\ Matches(users, parseInt(req'.id)) = {})
       => (res' = << NotFound >> /\ users' = users)]_vars

UpdateMissingWitness ==
    /\ IsPutUser(req)
    /\ "name" \in DOMAIN req.body
    /\ res = << NotFound >>
    /\ Matches(users, parseInt(req.id)) = {}

(* C6: a successful Update is a shallow merge in place with an exact      *)
(* frame: the fields of the body take the body's values, the other fields *)
(* of the matched record and all other records stay, length and order of  *)
(* the list stay, and the response is 200 with the merged record.         *)
UpdateMerges ==
    [][(IsPutUser(req') /\ Head(res').status = 200) =>
        LET k == hit'
            b == req'.body
        IN  /\ k # 0
            /\ k = FirstIndex(users, parseInt(req'.id))
            /\ Len(users') = Len(users)
            /\ \A j \in 1..Len(users) : j # k => users'[j] = users[j]
            /\ DOMAIN users'[k] = DOMAIN users[k] \cup DOMAIN b
            /\ \A f \in DOMAIN b : users'[k][f] = b[f]
            /\ \A f \in DOMAIN users[k] \ DOMAIN b : users'[k][f] = users[k][f]
            /\ res' = << Send(200, JsonBody(users'[k])) >>]_vars

UpdateMergesWitness ==
    /\ IsPutUser(req)
    /\ req.body = [age |-> Num(31)]
    /\ res # <<>>
    /\ Delivered.status = 200
    /\ users[1] = [id |-> Num(1), name |-> Str("John Doe"), age |-> Num(31),
                   weight |-> Num(75), height |-> Num(180)]
    /\ Delivered.body.obj = users[1]

(* C7: the list starts as the one seeded record, a Create appends its     *)
(* body as the last element and answers 201 with it, List and Get leave   *)
(* the list unchanged, no step removes or moves a record, the length is   *)
(* 1 plus the number of Creates, and List answers the list in order.      *)
AppendOnlyStep ==
    /\ Len(users') >= Len(users)
    /\ \A j \in 1..Len(users) : users'[j] = users[j] \/ (IsPutUser(req') /\ j = hit')
    /\ req'.method = "POST" =>
          /\ users' = Append(users, req'.body)
          /\ res' = << Send(201, JsonBody(req'.body)) >>
    /\ req'.method = "GET" => users' = users
    /\ (req'.method = "GET" /\ req'.route = "/users") =>
          res' = << Send(200, ListBody(users)) >>

UpdateIdempotent ==
    [][(IsPutUser(req) /\ Delivered.status = 200 /\ req' = req)
       => (res' = res /\ users' = users)]_vars

(* C8, amended: the same, for an Update whose body has no id or has the   *)
(* id of the path.                                                        *)
UpdateIdempotentSameId ==
    [][(IsPutUser(req) /\ Delivered.status = 200 /\ ~ChangesId(req) /\ req' = req)
       => (res' = res /\ users' = users)]_vars

UpdateIdempotentWitness ==
    /\ IsPutUser(req)
    /\ res # <<>>
    /\ Delivered.status = 200
    /\ ~ChangesId(req)
    /\ req.body = [age |-> Num(31)]
    /\ Len(users) > 1
    /\ Delivered.body.obj = users[hit]

(* C9: handlers run one after the other.  After an Update that answered   *)
(* 200 the matched record has every field of the body (no partly applied  *)
(* merge); when two Updates in a row succeed on the same record, each     *)
(* field has the value of the later body if that body has it, else of the *)
(* earlier body if that one has it, else its value from before, and the   *)
(* other records are untouched.                                           *)
MergeComplete ==
    (IsPutUser(req) /\ Delivered.status = 200) =>
        \A f \in DOMAIN req.body : Prop(users[hit], f) = req.body[f]

LastWriteWinsStep ==
    (/\ IsPutUser(req) /\ Delivered.status = 200
     /\ IsPutUser(req') /\ Head(res').status = 200
     /\ hit' = hit) =>
        /\ \A f \in DOMAIN users'[hit] :
              users'[hit][f] =
                 IF f \in DOMAIN req'.body THEN req'.body[f]
                 ELSE IF f \in DOMAIN req.body THEN req.body[f]
                 ELSE users[hit][f]
        /\ DOMAIN users'[hit] = DOMAIN users[hit] \cup DOMAIN req'.body
        /\ \A j \in 1..Len(users) : j # hit => users'[j] = users[j]
        /\ Len(users') = Len(users)

LastWriteWins == []MergeComplete /\ [][LastWriteWinsStep]_vars

LastWriteWinsWitness ==
    /\ IsPutUser(req)
    /\ req.body = [age |-> Num(31)]
    /\ res # <<>>
    /\ Delivered.status = 200
    /\ Prop(users[hit], "age") = Num(31)
    /\ Prop(users[hit], "weight") = Num(80)

(* C10: Update does not guard the id.  After a successful Update on path  *)
(* id i whose body has another id j the matched record has id j, so the   *)
(* response of the Update carries an id that is not the path id; the next *)
(* Get or Update on path i does not reach that record, and the lookup of  *)
(* j reaches it exactly when no earlier record has id j.  The record a    *)
(* Get answers always has the id of its path.                             *)
GetAnswersPathId ==
    (IsGetUser(req) /\ Delivered.status = 200) =>
        StrictEq(Prop(Delivered.body.obj, "id"), parseInt(req.id))

IdOverwrittenStep ==
    /\ (IsPutUser(req') /\ Head(res').status = 200 /\ ChangesId(req')) =>
          LET k == hit'
              j == req'.body["id"]
          IN  /\ k = FirstIndex(users, parseInt(req'.id))
              /\ Prop(users'[k], "id") = j
              /\ Prop(Head(res').body.obj, "id") = j
              /\ FirstIndex(users', parseInt(req'.id)) \in {0} \cup (k + 1)..Len(users')
              /\ (FirstIndex(users', j) = k) <=>
                    (\A m \in 1..(k - 1) : Prop(users'[m], "id") # j)
    /\ (/\ IsPutUser(req) /\ Delivered.status = 200 /\ ChangesId(req)
        /\ (IsPutUser(req') \/ IsGetUser(req'))
        /\ req'.id = req.id) =>
          (hit' = 0 /\ Head(res').status = 404) \/ hit' > hit

IdOverwritten == []GetAnswersPathId /\ [][IdOverwrittenStep]_vars

IdOverwrittenWitness ==
    /\ IsPutUser(req)
    /\ res # <<>>
    /\ Delivered.status = 200
    /\ parseInt(req.id) = Num(1)
    /\ req.body = [id |-> Num(2)]
    /\ Delivered.body.obj["id"] = Num(2)
    /\ FirstIndex(users, Num(1)) > hit

====
